---- MODULE Spec2Model ----
(***************************************************************************)
(* Model of the duplicate matching and batch resolution engine of          *)
(* chorus_download.py: the filename pattern of                             *)
(* find_duplicates_of_sng_in_library, its walk over the library roots, and *)
(* the streaming reduction of remove_duplicates.                           *)
(*                                                                         *)
(* Strings are sequences of one-character strings, so that the pattern     *)
(* match, str.lower() and the substring tests are computed, not assumed.   *)
(***************************************************************************)
EXTENDS Integers, Sequences, FiniteSets, TLC

VARIABLES
    fileName,     \* parser run: the filename handed to re.match
    parts,        \* parser run: the components the filename was built from
    match,        \* parser run: the result of re.match ("pending" before)
    song_name,    \* checker call: os.path.basename(song_filepath)
    song_dir,     \* checker call: directory part of song_filepath
    walk,         \* checker call: what os.walk yields over `directories`
    charter_verification, \* checker call: charter -> parent_dir_substring
    result,       \* checker call: the returned value ("pending" before)
    disk,         \* resolver: the .sng and other files of the batch directory
    library,      \* resolver: the song library the batch is checked against
    dry_run,      \* resolver: the dry_run argument of the current run
    pc,           \* resolver: "idle", "loop", "done" or "raised"
    listing,      \* resolver: what os.listdir returned, with the sizes then
    todo,         \* resolver: entries of os.listdir not yet iterated
    files_dict,   \* resolver: base_name -> (file_path, file_size)
    run,          \* resolver: "first" or "second" call on the directory
    first_dry,    \* resolver: dry_run of the first call
    earlier       \* resolver: the files an earlier run on the same files left

parserVars == <<fileName, parts, match>>
checkerVars == <<song_name, song_dir, walk, charter_verification, result>>
resolverVars == <<disk, library, dry_run, pc, listing, todo, files_dict, run,
                  first_dry, earlier>>
vars == <<fileName, parts, match, song_name, song_dir, walk,
          charter_verification, result, disk, library, dry_run, pc, listing,
          todo, files_dict, run, first_dry, earlier>>

-----------------------------------------------------------------------------
(* Strings *)

Cat(ss) == LET RECURSIVE C(_)
               C(i) == IF i > Len(ss) THEN <<>> ELSE ss[i] \o C(i + 1)
           IN  C(1)

\* s[i..] starts with lit
HasAt(s, lit, i) ==
    /\ i >= 1
    /\ i + Len(lit) - 1 <= Len(s)
    /\ \A k \in 1..Len(lit) : s[i + k - 1] = lit[k]

\* Python's `sub in s`
Contains(sub, s) == \E i \in 1..(Len(s) + 1) : HasAt(s, sub, i)

\* str.endswith
EndsWith(s, suf) == HasAt(s, suf, Len(s) - Len(suf) + 1)

LowerChar(c) ==
    CASE c = "A" -> "a"
      [] c = "B" -> "b"
      [] c = "C" -> "c"
      [] c = "X" -> "x"
      [] OTHER -> c

\* str.lower()
Lower(s) == [i \in 1..Len(s) |-> LowerChar(s[i])]

Digits == {"1", "2"}

SepDash == <<" ", "-", " ">>
SepParen == <<" ", "(">>
CloseParen == <<")">>
DotSng == <<".", "s", "n", "g">>

-----------------------------------------------------------------------------
(* The filename pattern, chorus_download.py line 28:                       *)
(*   re.match(r"(.+?) - (.+?) \((.+?)\)(?: \(\d+\))?\.sng", song_name)     *)
(* re.match anchors the pattern at the start of the string only.           *)

\* the value of `match`: None, or the three groups
NoMatch == [state |-> "None"]

\* i starts " (" \d+ ")" and j is the position right after it
CounterAt(s, i, j) ==
    /\ j - 1 <= Len(s)
    /\ j >= i + 4
    /\ HasAt(s, SepParen, i)
    /\ \A k \in (i + 2)..(j - 2) : s[k] \in Digits
    /\ s[j - 1] = ")"

\* mutant: the optional counter group is missing from the pattern
TailAtNoCounter(s, i) == HasAt(s, DotSng, i)

\* (?: \(\d+\))?\.sng matches at i
TailAt(s, i) ==
    \/ \E j \in (i + 4)..(Len(s) + 1) : CounterAt(s, i, j) /\ HasAt(s, DotSng, j)
    \/ HasAt(s, DotSng, i)

\* \((.+?)\)(?: \(\d+\))?\.sng with the group spanning c..e
CharterEnds(s, c) ==
    {e \in c..Len(s) : HasAt(s, CloseParen, e + 1) /\ TailAt(s, e + 2)}

\* (.+?) \( ... with the title spanning t..u
TitleEnds(s, t) ==
    {u \in t..Len(s) : HasAt(s, SepParen, u + 1) /\ CharterEnds(s, u + 3) # {}}

\* (.+?) - ... with the artist spanning 1..a
ArtistEnds(s) ==
    {a \in 1..Len(s) : HasAt(s, SepDash, a + 1) /\ TitleEnds(s, a + 4) # {}}

Min(S) == CHOOSE x \in S : \A y \in S : x <= y

\* the groups of the first match in backtracking order: every lazy group is
\* the shortest one that lets the rest of the pattern match
ReMatch(s) ==
    LET artistEnds == ArtistEnds(s)
    IN  IF artistEnds = {} THEN NoMatch
        ELSE LET a == Min(artistEnds)
                 u == Min(TitleEnds(s, a + 4))
                 e == Min(CharterEnds(s, u + 3))
             IN  [state |-> "match",
                  artist |-> SubSeq(s, 1, a),
                  name |-> SubSeq(s, a + 4, u),
                  charter |-> SubSeq(s, u + 3, e)]


-----------------------------------------------------------------------------
(* Parser run: a filename is assembled from components and handed to the  *)
(* pattern of line 28.                                                    *)

Idle == "idle"
Pending == "pending"
NotRun == [state |-> Idle]
NotCalled == [state |-> Pending]

Artists == {<<"a">>, <<"a", " ", "-", " ", "x">>, <<"a", " ", "-">>,
            <<"a", " ", "(", "x", ")">>}
Titles == {<<"b">>, <<"b", " ", "-", " ", "x">>, <<"b", " ", "(", "x", ")">>,
           <<"b", "(", "x", ")">>}
Charters == {<<"c">>, <<"c", " ", "(", "x", ")">>, <<"c", ")">>,
             <<"c", ")", " ", "(", "1">>}
Counters == {<<>>, <<" ", "(", "1", ")">>, <<" ", "(", "1", "2", ")">>}

\* "ok" is the documented format; the others deviate from it in one place
Shapes == {"ok", "wrong_separator", "no_space_before_charter",
           "missing_parenthesis", "extra_text", "trailing_text"}

BuildName(p) ==
    Cat(<<p.artist,
          IF p.shape = "wrong_separator" THEN <<"-">> ELSE SepDash,
          p.title,
          IF p.shape = "no_space_before_charter" THEN <<"(">> ELSE SepParen,
          p.charter,
          IF p.shape = "missing_parenthesis" THEN <<>> ELSE CloseParen,
          p.counter,
          IF p.shape = "extra_text" THEN <<" ", "x">> ELSE <<>>,
          DotSng,
          IF p.shape = "trailing_text" THEN <<"x">> ELSE <<>> >>)

PartsSet == [artist : Artists, title : Titles, charter : Charters,
             counter : Counters, shape : Shapes]

CheckerIdle ==
    /\ song_name = <<>>
    /\ song_dir = <<>>
    /\ walk = <<>>
    /\ charter_verification = <<>>
    /\ result = Idle

ResolverIdle ==
    /\ disk = <<>>
    /\ library = NotRun
    /\ dry_run = FALSE
    /\ pc = Idle
    /\ listing = <<>>
    /\ todo = {}
    /\ files_dict = <<>>
    /\ run = Idle
    /\ first_dry = FALSE
    /\ earlier = {}

ParserIdle ==
    /\ fileName = <<>>
    /\ parts = NotRun
    /\ match = NotRun

InitParser ==
    /\ parts \in PartsSet
    /\ fileName = BuildName(parts)
    /\ match = NotCalled
    /\ CheckerIdle
    /\ ResolverIdle

\* lines 25-33: match the basename against the pattern
Parse ==
    /\ match = NotCalled
    /\ match' = ReMatch(fileName)
    /\ UNCHANGED <<fileName, parts>>
    /\ UNCHANGED checkerVars
    /\ UNCHANGED resolverVars

NextParser == Parse

SpecParser == InitParser /\ [][NextParser]_vars

-----------------------------------------------------------------------------
(* find_duplicates_of_sng_in_library, lines 24-105.                        *)
(*                                                                         *)
(* os.walk is modelled by what it yields: a sequence of entries            *)
(* [root, dirs, files]; a subdirectory is [name, ini] where ini says what  *)
(* reading <root>/<name>/song.ini gives.                                   *)

JoinPath(root, n) == root \o <<"/">> \o n

\* config.get(song_section, option, fallback=None), lines 65-73: None when
\* no section is named "song" (any case) or the option is not in it
ConfigGet(ini, option) ==
    IF ini.section /\ option \in ini.has
    THEN [some |-> TRUE, value |-> ini[option]]
    ELSE [some |-> FALSE, value |-> <<>>]

\* truth value of an Optional[str]
Truthy(v) == v.some /\ v.value # <<>>

\* lines 76-81
MetadataMatch(ini, key) ==
    LET ini_name == ConfigGet(ini, "name")
        ini_artist == ConfigGet(ini, "artist")
        ini_charter == ConfigGet(ini, "charter")
    IN  /\ Truthy(ini_name)
        /\ Truthy(ini_artist)
        /\ Truthy(ini_charter)
        /\ Lower(ini_name.value) = Lower(key.name)
        /\ Lower(ini_artist.value) = Lower(key.artist)
        /\ Contains(Lower(key.charter), Lower(ini_charter.value))

\* lines 88-89: charter_verification.get(charter, {}).get("parent_dir_substring", "")
ParentDirSubstring(cv, charter) ==
    IF charter \in DOMAIN cv THEN cv[charter] ELSE <<>>

\* lines 92 and 99: the two checks of the except branch
FallbackVerify(root, d, key, cv) ==
    LET parent_dir_substring == ParentDirSubstring(cv, key.charter)
    IN  \/ /\ parent_dir_substring # <<>>
           /\ Contains(parent_dir_substring, JoinPath(root, d.name))
        \/ Contains(key.charter, d.name)

\* line 58
IsCandidate(d, key) ==
    Contains(Lower(Cat(<<key.artist, SepDash, key.name>>)), Lower(d.name))

\* mutant: the directory name alone decides
CheckDirByNameOnly(root, d, key, cv) == IsCandidate(d, key)

\* mutant: the two checks of the except branch also run when the fields
\* read from song.ini do not match
CheckDirFallbackOnMismatch(root, d, key, cv) ==
    /\ IsCandidate(d, key)
    /\ d.ini.state # "missing"
    /\ IF d.ini.state = "error"
       THEN FallbackVerify(root, d, key, cv)
       ELSE MetadataMatch(d.ini, key) \/ FallbackVerify(root, d, key, cv)

\* lines 58-103: what one dir_name of the inner loop contributes; TRUE is
\* a `return True`
CheckDir(root, d, key, cv) ==
    /\ IsCandidate(d, key)
    /\ d.ini.state # "missing"
    /\ IF d.ini.state = "error"
       THEN FallbackVerify(root, d, key, cv)
       ELSE MetadataMatch(d.ini, key)

\* mutant: the joined path is compared with the bare file name
FoundExactFilepathBasename(entry, sd, sn) ==
    \E file \in entry.files : JoinPath(entry.root, file) = sn

\* lines 39-43
FoundExactFilepath(entry, sd, sn) ==
    \E file \in entry.files : JoinPath(entry.root, file) = JoinPath(sd, sn)

\* line 48
ExactMatch(entry, sn) == sn \in entry.files

RECURSIVE ScanDirs(_, _, _, _)
\* lines 57-103: for dir_name in dirs, from the k-th on
ScanDirs(entry, k, key, cv) ==
    IF k > Len(entry.dirs) THEN FALSE
    ELSE IF CheckDir(entry.root, entry.dirs[k], key, cv) THEN TRUE
    ELSE ScanDirs(entry, k + 1, key, cv)

\* mutant: a directory is left as soon as it holds a file of that name
SkipsEntryByName(entry, sd, sn) == sn \in entry.files

\* lines 45-46: the directory is left by `continue`
SkipsEntry(entry, sd, sn) == FoundExactFilepath(entry, sd, sn)

RECURSIVE WalkFrom(_, _, _, _, _, _)
\* lines 35-105: the walk from its i-th entry on
WalkFrom(w, i, sd, sn, key, cv) ==
    IF i > Len(w) THEN FALSE
    ELSE IF SkipsEntry(w[i], sd, sn) THEN WalkFrom(w, i + 1, sd, sn, key, cv)
    ELSE IF ExactMatch(w[i], sn) THEN TRUE
    ELSE IF ScanDirs(w[i], 1, key, cv) THEN TRUE
    ELSE WalkFrom(w, i + 1, sd, sn, key, cv)

find_duplicates_of_sng_in_library(sd, sn, w, cv) ==
    LET m == ReMatch(sn)
    IN  IF m = NoMatch THEN FALSE
        ELSE WalkFrom(w, 1, sd, sn, m, cv)

PyBool(b) == IF b THEN "True" ELSE "False"

-----------------------------------------------------------------------------
(* Checker call: one call of find_duplicates_of_sng_in_library on a file   *)
(* of the download directory D, over a library of at most MaxWalk walked   *)
(* directories among D itself, L and K.                                    *)

MaxWalk == 2

BatchDir == <<"D">>
Roots == {BatchDir, <<"L">>, <<"K">>}

SN1 == <<"a", " ", "-", " ", "b", " ", "(", "c", ")", ".", "s", "n", "g">>
SN1c == <<"a", " ", "-", " ", "b", " ", "(", "c", ")", " ", "(", "1", ")",
          ".", "s", "n", "g">>
SNbad == <<"a", " ", "-", " ", "b", "(", "c", ")", ".", "s", "n", "g">>
SNtrail == <<"a", " ", "-", " ", "b", " ", "(", "c", ")", ".", "s", "n", "g",
             ".", "s", "n", "g">>
SongNames == {SN1, SN1c, SNbad, SNtrail}

IniMissing == [state |-> "missing"]
IniError == [state |-> "error"]
IniRead(section, has, name, artist, charter) ==
    [state |-> "read", section |-> section, has |-> has,
     name |-> name, artist |-> artist, charter |-> charter]
All3 == {"name", "artist", "charter"}
IniMatch == IniRead(TRUE, All3, <<"B">>, <<"a">>, <<"x", "C">>)
IniOther == IniRead(TRUE, All3, <<"b">>, <<"a">>, <<"x">>)
IniNoCharter == IniRead(TRUE, {"name", "artist"}, <<"b">>, <<"a">>, <<>>)
IniNoSection == IniRead(FALSE, All3, <<"b">>, <<"a">>, <<"c">>)

DN1 == <<"A", " ", "-", " ", "B">>
DN2 == <<"a", " ", "-", " ", "b", " ", "(", "c", ")">>
DN3 == <<"a", " ", "-", " ", "x">>
Sub(n, ini) == [name |-> n, ini |-> ini]

DirsMenu ==
    {<<>>,
     <<Sub(DN1, IniMatch)>>,
     <<Sub(DN2, IniOther)>>,
     <<Sub(DN1, IniError)>>,
     <<Sub(DN2, IniError)>>,
     <<Sub(DN2, IniMissing)>>,
     <<Sub(DN2, IniNoCharter)>>,
     <<Sub(DN2, IniNoSection)>>,
     <<Sub(DN3, IniMatch)>>,
     <<Sub(DN1, IniError), Sub(DN1, IniMatch)>>}

FilesMenu(sn) == {{}, {sn}, {SN1}}

\* what a walked directory holds: files only, or subdirectories beside at
\* most a file of the song's own name
ContentMenu(sn) ==
    {[dirs |-> <<>>, files |-> f] : f \in FilesMenu(sn)}
    \cup {[dirs |-> d, files |-> f] : d \in DirsMenu \ {<<>>}, f \in {{}, {sn}}}

Hint == <<"K", "/">>
NoRules == [c \in {} |-> <<>>]
CVMenu == {NoRules, [c \in {<<"c">>} |-> Hint]}

\* the sequences of n distinct roots
RootSeqs(n) == {r \in [1..n -> Roots] : \A i, j \in 1..n : r[i] = r[j] => i = j}

InitChecker ==
    /\ song_name \in SongNames
    /\ song_dir = BatchDir
    /\ charter_verification \in CVMenu
    /\ \E n \in 1..MaxWalk :
         \E r \in RootSeqs(n), c \in [1..n -> ContentMenu(song_name)] :
           walk = [i \in 1..n |->
                     [root |-> r[i], dirs |-> c[i].dirs, files |-> c[i].files]]
    /\ result = Pending
    /\ ParserIdle
    /\ ResolverIdle

Call ==
    /\ result = Pending
    /\ result' = PyBool(find_duplicates_of_sng_in_library(
                            song_dir, song_name, walk, charter_verification))
    /\ UNCHANGED <<song_name, song_dir, walk, charter_verification>>
    /\ UNCHANGED parserVars
    /\ UNCHANGED resolverVars

NextChecker == Call

SpecChecker == InitChecker /\ [][NextChecker]_vars

-----------------------------------------------------------------------------
(* remove_duplicates, lines 107-150.                                       *)
(*                                                                         *)
(* The batch directory is D. `disk` maps the names of its files to their   *)
(* sizes; os.listdir gives the names in no particular order, so the loop   *)
(* takes any entry not yet iterated.                                       *)

MaxSize == 2

\* lines 113 and 138: the pattern " \(\d+\)\.sng$" matches
HasCounterSuffix(filename) ==
    /\ EndsWith(filename, DotSng)
    /\ \E i \in 1..Len(filename) : CounterAt(filename, i, Len(filename) - 3)

\* line 113: re.sub(r" \(\d+\)\.sng$", ".sng", filename)
BaseName(filename) ==
    IF HasCounterSuffix(filename)
    THEN LET i == CHOOSE i \in 1..Len(filename) :
                      CounterAt(filename, i, Len(filename) - 3)
         IN  SubSeq(filename, 1, i - 1) \o DotSng
    ELSE filename

\* os.remove(path) on the batch directory
Remove(d, filename) == [n \in (DOMAIN d) \ {filename} |-> d[n]]

\* what os.walk yields for the library while the batch directory holds d:
\* the batch directory itself is walked when it lies under a library root
LibraryWalk(lib, d) ==
    (IF lib.batch_inside
     THEN <<[root |-> BatchDir, dirs |-> <<>>, files |-> DOMAIN d]>>
     ELSE <<>>) \o lib.walk

\* line 119: find_duplicates_of_sng_in_library(sng_filepath, song_directories, ...)
IsLibraryDuplicate(filename, lib, d) ==
    find_duplicates_of_sng_in_library(BatchDir, filename, LibraryWalk(lib, d), lib.rules)

B1 == SN1
B1c == SN1c
B1d == <<"a", " ", "-", " ", "b", " ", "(", "c", ")", " ", "(", "2", ")",
         ".", "s", "n", "g">>
U1 == SNbad
U1c == <<"a", " ", "-", " ", "b", "(", "c", ")", " ", "(", "1", ")",
         ".", "s", "n", "g">>
\* a file that is not a .sng file, named after a song
Notes == B1 \o <<".", "t", "x", "t">>
SngNames == {B1, B1c, B1d, U1, U1c}

Lib(inside, w) == [state |-> "library", batch_inside |-> inside, walk |-> w,
                   rules |-> NoRules]
LibraryMenu ==
    {Lib(FALSE, <<>>),
     Lib(FALSE, <<[root |-> <<"K">>, dirs |-> <<>>, files |-> {B1c, Notes}]>>),
     Lib(TRUE, <<[root |-> <<"L">>, dirs |-> <<>>, files |-> {B1}]>>)}

NoEntries == [n \in {} |-> 0]
NoBest == [b \in {} |-> [path |-> <<>>, size |-> 0]]

InitResolver ==
    /\ \E present \in SUBSET SngNames :
         \E sizes \in [present -> 1..MaxSize] :
           /\ U1 \in present => sizes[U1] = 1
           /\ U1c \in present => sizes[U1c] \in {1, MaxSize}
           /\ disk = (Notes :> 1) @@ sizes
    /\ library \in LibraryMenu
    /\ dry_run = FALSE
    /\ pc = Idle
    /\ listing = NoEntries
    /\ todo = {}
    /\ files_dict = NoBest
    /\ run = "first"
    /\ first_dry = FALSE
    /\ earlier = {}
    /\ ParserIdle
    /\ CheckerIdle

\* lines 107-110: the call, files_dict = {} and os.listdir(directory)
Begin(dry, which) ==
    /\ dry_run' = dry
    /\ run' = which
    /\ first_dry' = IF which = "first" THEN dry ELSE first_dry
    /\ pc' = "loop"
    /\ listing' = disk
    /\ todo' = DOMAIN disk
    /\ files_dict' = NoBest
    /\ UNCHANGED <<disk, library, earlier>>
    /\ UNCHANGED parserVars
    /\ UNCHANGED checkerVars

Start == \E dry \in BOOLEAN : pc = Idle /\ Begin(dry, "first")

\* a second call on the same directory, after the first has returned
StartAgain ==
    \E dry \in BOOLEAN : pc = "done" /\ run = "first" /\ Begin(dry, "second")

\* one iteration of the for loop of line 110 on `filename`: `d` is the
\* directory content after it, `best` the new files_dict
Iterate(filename, d, best) ==
    /\ pc = "loop"
    /\ filename \in todo
    /\ todo' = todo \ {filename}
    /\ disk' = d
    /\ files_dict' = best
    /\ UNCHANGED <<library, dry_run, pc, listing, run, first_dry, earlier>>
    /\ UNCHANGED parserVars
    /\ UNCHANGED checkerVars

\* mutant: the `continue` of line 126 is missing, library duplicates are
\* compared too
ComparableAlsoDuplicates(filename) ==
    /\ filename \in todo
    /\ EndsWith(filename, DotSng)
    /\ filename \in DOMAIN disk

\* lines 115 and 119-148 read the entry's size and the library
Comparable(filename) ==
    /\ filename \in todo
    /\ EndsWith(filename, DotSng)
    /\ filename \in DOMAIN disk
    /\ ~IsLibraryDuplicate(filename, library, disk)

\* line 111: not a .sng file
SkipOtherFile ==
    \E filename \in todo :
        /\ ~EndsWith(filename, DotSng)
        /\ Iterate(filename, disk, files_dict)

\* mutant: the test of line 111 is missing, any file of the listing is
\* checked against the library
RemoveLibraryDuplicateAnyFile ==
    \E filename \in todo :
        /\ filename \in DOMAIN disk
        /\ ~dry_run
        /\ IsLibraryDuplicate(filename, library, disk)
        /\ Iterate(filename, Remove(disk, filename), files_dict)

\* lines 119-122 and 126
RemoveLibraryDuplicate ==
    \E filename \in todo :
        /\ EndsWith(filename, DotSng)
        /\ filename \in DOMAIN disk
        /\ ~dry_run
        /\ IsLibraryDuplicate(filename, library, disk)
        /\ Iterate(filename, Remove(disk, filename), files_dict)

\* lines 119, 123-126
ReportLibraryDuplicate ==
    \E filename \in todo :
        /\ EndsWith(filename, DotSng)
        /\ filename \in DOMAIN disk
        /\ dry_run
        /\ IsLibraryDuplicate(filename, library, disk)
        /\ Iterate(filename, disk, files_dict)

Best(filename) == [path |-> filename, size |-> disk[filename]]

\* lines 146-148
StoreFirst ==
    \E filename \in todo :
        /\ filename \in DOMAIN disk
        /\ BaseName(filename) \notin DOMAIN files_dict
        /\ Comparable(filename)
        /\ Iterate(filename, disk,
                   (BaseName(filename) :> Best(filename)) @@ files_dict)

\* mutant: the larger new entry is recorded but it is the file removed
KeepLargerRemovesNew ==
    \E filename \in todo :
        /\ filename \in DOMAIN disk
        /\ BaseName(filename) \in DOMAIN files_dict
        /\ disk[filename] > files_dict[BaseName(filename)].size
        /\ Comparable(filename)
        /\ Iterate(filename, Remove(disk, filename),
                   (BaseName(filename) :> Best(filename)) @@ files_dict)

\* lines 132-135
KeepLarger ==
    \E filename \in todo :
        /\ filename \in DOMAIN disk
        /\ BaseName(filename) \in DOMAIN files_dict
        /\ disk[filename] > files_dict[BaseName(filename)].size
        /\ Comparable(filename)
        /\ Iterate(filename, Remove(disk, files_dict[BaseName(filename)].path),
                   (BaseName(filename) :> Best(filename)) @@ files_dict)

\* lines 136-139
RemoveEqualWithSuffix ==
    \E filename \in todo :
        /\ filename \in DOMAIN disk
        /\ BaseName(filename) \in DOMAIN files_dict
        /\ disk[filename] = files_dict[BaseName(filename)].size
        /\ HasCounterSuffix(filename)
        /\ Comparable(filename)
        /\ Iterate(filename, Remove(disk, filename), files_dict)

\* mutant: on equal sizes the new entry goes, suffix or not
KeepEqualFirstSeen ==
    \E filename \in todo :
        /\ filename \in DOMAIN disk
        /\ BaseName(filename) \in DOMAIN files_dict
        /\ disk[filename] = files_dict[BaseName(filename)].size
        /\ ~HasCounterSuffix(filename)
        /\ Comparable(filename)
        /\ Iterate(filename, Remove(disk, filename), files_dict)

\* lines 136-138 and 140-142
KeepEqualWithoutSuffix ==
    \E filename \in todo :
        /\ filename \in DOMAIN disk
        /\ BaseName(filename) \in DOMAIN files_dict
        /\ disk[filename] = files_dict[BaseName(filename)].size
        /\ ~HasCounterSuffix(filename)
        /\ Comparable(filename)
        /\ Iterate(filename, Remove(disk, files_dict[BaseName(filename)].path),
                   (BaseName(filename) :> Best(filename)) @@ files_dict)

\* mutant: the smaller entry is passed over but not removed
RemoveSmallerKeepsFile ==
    \E filename \in todo :
        /\ filename \in DOMAIN disk
        /\ BaseName(filename) \in DOMAIN files_dict
        /\ disk[filename] < files_dict[BaseName(filename)].size
        /\ Comparable(filename)
        /\ Iterate(filename, disk, files_dict)

\* lines 143-145
RemoveSmaller ==
    \E filename \in todo :
        /\ filename \in DOMAIN disk
        /\ BaseName(filename) \in DOMAIN files_dict
        /\ disk[filename] < files_dict[BaseName(filename)].size
        /\ Comparable(filename)
        /\ Iterate(filename, Remove(disk, filename), files_dict)

\* lines 122, 134, 139, 141 and 145: os.remove raises (permission denied,
\* path not found); nothing catches it here or at line 402, so the call
\* ends inside the iteration on `filename`
RemoveRaises ==
    \E filename \in todo :
        /\ pc = "loop"
        /\ EndsWith(filename, DotSng)
        /\ filename \in DOMAIN disk
        /\ dry_run => BaseName(filename) \in DOMAIN files_dict
        /\ IF IsLibraryDuplicate(filename, library, disk)
           THEN ~dry_run
           ELSE BaseName(filename) \in DOMAIN files_dict
        /\ pc' = "raised"
        /\ UNCHANGED <<disk, library, dry_run, listing, todo, files_dict, run,
                       first_dry, earlier>>
        /\ UNCHANGED parserVars
        /\ UNCHANGED checkerVars

\* line 150: the listing is exhausted
Finish ==
    /\ pc = "loop"
    /\ todo = {}
    /\ pc' = "done"
    /\ UNCHANGED <<disk, library, dry_run, listing, todo, files_dict, run,
                   first_dry, earlier>>
    /\ UNCHANGED parserVars
    /\ UNCHANGED checkerVars

Init == InitResolver

Next ==
    \/ Start
    \/ SkipOtherFile
    \/ RemoveLibraryDuplicate
    \/ ReportLibraryDuplicate
    \/ StoreFirst
    \/ KeepLarger
    \/ RemoveEqualWithSuffix
    \/ KeepEqualWithoutSuffix
    \/ RemoveSmaller
    \/ RemoveRaises
    \/ Finish
    \/ StartAgain

Spec == Init /\ [][Next]_vars

-----------------------------------------------------------------------------
(* remove_duplicates on the same files in another listing order: after a   *)
(* run has returned, the call is made again on a batch directory holding   *)
(* the files the first run listed, with the same library and dry_run.      *)

\* lines 107-110 on the files of the first listing
Replay ==
    /\ pc = "done"
    /\ run = "first"
    /\ earlier' = DOMAIN disk
    /\ disk' = listing
    /\ todo' = DOMAIN listing
    /\ files_dict' = NoBest
    /\ pc' = "loop"
    /\ run' = "replay"
    /\ UNCHANGED <<library, dry_run, listing, first_dry>>
    /\ UNCHANGED parserVars
    /\ UNCHANGED checkerVars

InitOrder == InitResolver

NextOrder ==
    \/ Start
    \/ SkipOtherFile
    \/ RemoveLibraryDuplicate
    \/ ReportLibraryDuplicate
    \/ StoreFirst
    \/ KeepLarger
    \/ RemoveEqualWithSuffix
    \/ KeepEqualWithoutSuffix
    \/ RemoveSmaller
    \/ Finish
    \/ Replay

SpecOrder == InitOrder /\ [][NextOrder]_vars

-----------------------------------------------------------------------------
(* What the claims speak of, stated over the inputs of a checker call      *)
(* independently of the walk above.                                        *)

Returned == result \in {"True", "False"}
Key == ReMatch(song_name)
Parses == Key # NoMatch

\* s[i..j], empty when that is not inside s
Slice(s, i, j) == IF i >= 1 /\ j <= Len(s) THEN SubSeq(s, i, j) ELSE <<>>

\* the documented format "<Artist> - <Name> (<Charter>) (N).sng", matched
\* against the whole filename
GrammarCounter(s, i, j) ==
    /\ j >= i + 4
    /\ j - 1 <= Len(s)
    /\ s[i] = " "
    /\ s[i + 1] = "("
    /\ \A k \in (i + 2)..(j - 2) : s[k] \in Digits
    /\ s[j - 1] = ")"

GrammarEnd(s, i) == i + 3 = Len(s) /\ Slice(s, i, Len(s)) = DotSng

Grammar(s) ==
    \E a \in 1..Len(s), u \in 1..Len(s), e \in 1..Len(s) :
        /\ Slice(s, a + 1, a + 3) = SepDash
        /\ u >= a + 4
        /\ Slice(s, u + 1, u + 2) = SepParen
        /\ e >= u + 3
        /\ e + 1 <= Len(s)
        /\ s[e + 1] = ")"
        /\ \/ GrammarEnd(s, e + 2)
           \/ \E j \in (e + 6)..Len(s) : GrammarCounter(s, e + 2, j) /\ GrammarEnd(s, j)

\* the positions (i, k) of the subdirectories the walk sees
Subdirs == UNION {{i} \X DOMAIN walk[i].dirs : i \in DOMAIN walk}
SubdirAt(ik) == walk[ik[1]].dirs[ik[2]]
RootAt(ik) == walk[ik[1]].root

\* a folder candidate for the key: the name contains "<Artist> - <Title>",
\* any case
FolderCandidate(ik, key) ==
    \E p \in 1..Len(SubdirAt(ik).name) :
        Lower(Slice(SubdirAt(ik).name, p, p + Len(key.artist) + Len(key.name) + 2))
          = Lower(key.artist \o SepDash \o key.name)

AllThreePresent(ini) ==
    ini.state = "read" /\ ini.section /\ All3 \subseteq ini.has

MetadataConfirms(ik, key) ==
    LET ini == SubdirAt(ik).ini
    IN  /\ AllThreePresent(ini)
        /\ Lower(ini.name) = Lower(key.name)
        /\ Lower(ini.artist) = Lower(key.artist)
        /\ Contains(Lower(key.charter), Lower(ini.charter))

HintApplies(ik, key) ==
    /\ key.charter \in DOMAIN charter_verification
    /\ charter_verification[key.charter] # <<>>
    /\ Contains(charter_verification[key.charter],
                RootAt(ik) \o <<"/">> \o SubdirAt(ik).name)

CharterInDirName(ik, key) == Contains(key.charter, SubdirAt(ik).name)

Undecodable(ik) == SubdirAt(ik).ini.state = "error"

FallbackConfirms(ik, key) ==
    Undecodable(ik) /\ (HintApplies(ik, key) \/ CharterInDirName(ik, key))

Confirmed(ik, key) ==
    FolderCandidate(ik, key) /\ (MetadataConfirms(ik, key) \/ FallbackConfirms(ik, key))

\* some folder candidate is confirmed by its metadata or by the fallback
SomeConfirmed ==
    LET key == Key
    IN  key # NoMatch /\ \E ik \in Subdirs : Confirmed(ik, key)

\* some folder candidate is confirmed by nothing
SomeUnconfirmed ==
    LET key == Key
    IN  key # NoMatch
        /\ \E ik \in Subdirs : FolderCandidate(ik, key) /\ ~Confirmed(ik, key)

\* some folder candidate has readable, matching metadata
SomeMetadataMatch ==
    LET key == Key
    IN  key # NoMatch
        /\ \E ik \in Subdirs : FolderCandidate(ik, key) /\ MetadataConfirms(ik, key)

\* some folder candidate has undecodable metadata and passes the fallback
SomeFallbackSuccess ==
    LET key == Key
    IN  key # NoMatch
        /\ \E ik \in Subdirs : FolderCandidate(ik, key) /\ FallbackConfirms(ik, key)

\* a file of the song's name in a walked directory, the batch file apart
OtherExactFile ==
    \E i \in DOMAIN walk : song_name \in walk[i].files /\ walk[i].root # song_dir

\* the batch file itself is among the walked files
SelfInLibrary ==
    \E i \in DOMAIN walk : song_name \in walk[i].files /\ walk[i].root = song_dir

-----------------------------------------------------------------------------
(* Claims on find_duplicates_of_sng_in_library (SpecChecker).              *)

\* C3: whenever the name parses and a file of exactly that name lies in a
\* walked directory, the batch file itself apart, the call returns True,
\* whatever folder candidates exist beside it.
C3_ExactFileWins ==
    (Returned /\ Parses /\ OtherExactFile) => result = "True"

\* C3 witness: an exact file found while a folder candidate with readable,
\* non-matching metadata exists too
C3_Witness ==
    /\ result = "True"
    /\ Parses
    /\ OtherExactFile
    /\ SomeUnconfirmed
    /\ ~SomeConfirmed

\* C4: a batch file that is itself among the walked files is not a duplicate
\* of itself: with no other file of its name and no confirmed folder
\* candidate the call returns False.
C4_NeverItsOwnDuplicate ==
    (Returned /\ SelfInLibrary /\ ~OtherExactFile /\ ~SomeConfirmed)
        => result = "False"

\* C4 witness: the parseable batch file is walked and the call said False
C4_Witness ==
    /\ result = "False"
    /\ Parses
    /\ SelfInLibrary
    /\ Len(walk) > 1

\* C5 as claimed: for a filename outside the documented format (the parser
\* is claimed to yield no key for it) the call returns False for every
\* library content, a library holding a file of the same name included.
C5_UnparseableIsNeverDuplicate ==
    (Returned /\ ~Grammar(song_name)) => result = "False"

\* C6 as claimed: a folder candidate whose readable song.ini holds matching
\* name, artist and charter makes the call return True.
C6_MetadataMatchReturnsTrue ==
    (Returned /\ SomeMetadataMatch) => result = "True"

\* C7: a True result always rests on an exact file, a metadata match or a
\* fallback verification, never on the directory name alone.
C7_TrueNeedsEvidence ==
    result = "True" => (OtherExactFile \/ SomeConfirmed)

\* C7 witness: True returned on folder evidence, while another candidate
\* is similar by name only
C7_Witness ==
    /\ result = "True"
    /\ ~OtherExactFile
    /\ SomeUnconfirmed

\* C8 as claimed: for a candidate with undecodable metadata the hint, then
\* the charter in the directory name decide; a success returns True, and
\* without any confirmation the call returns False.
C8_FallbackDecides ==
    Returned =>
        /\ SomeFallbackSuccess => result = "True"
        /\ (Parses /\ ~OtherExactFile /\ ~SomeConfirmed) => result = "False"

\* song.ini is missing, or is read without the song section or without one
\* of name, artist and charter
Inconclusive(ik) ==
    \/ SubdirAt(ik).ini.state = "missing"
    \/ SubdirAt(ik).ini.state = "read" /\ ~AllThreePresent(SubdirAt(ik).ini)

\* C14 as claimed: a folder candidate whose song.ini is missing or lacks the
\* section or a field gets the fallback verification: when the charter's
\* hint is in its path or the charter is in its name, the call returns True.
C14_InconclusiveDefersToFallback ==
    Returned =>
        LET key == Key
        IN  (key # NoMatch
              /\ \E ik \in Subdirs :
                    /\ FolderCandidate(ik, key)
                    /\ Inconclusive(ik)
                    /\ (HintApplies(ik, key) \/ CharterInDirName(ik, key)))
            => result = "True"

\* readable metadata with the three fields, which do not match the key
ReadableMismatch(ik, key) ==
    AllThreePresent(SubdirAt(ik).ini) /\ ~MetadataConfirms(ik, key)

\* C15: a folder candidate whose song.ini is read with name, artist and
\* charter present and not matching never confirms a duplicate, hint in its
\* path and charter in its name or not: when every candidate is such a one
\* and no exact file exists, the call returns False.
C15_NoFallbackOnReadableMismatch ==
    Returned =>
        LET key == Key
        IN  (key # NoMatch
              /\ ~OtherExactFile
              /\ \A ik \in Subdirs :
                    FolderCandidate(ik, key) => ReadableMismatch(ik, key))
            => result = "False"

\* C15 witness: False returned although a candidate with readable,
\* non-matching metadata has the charter's hint in its path and the charter
\* in its name
C15_Witness ==
    /\ result = "False"
    /\ LET key == Key
       IN  /\ key # NoMatch
           /\ \E ik \in Subdirs :
                 /\ FolderCandidate(ik, key)
                 /\ ReadableMismatch(ik, key)
                 /\ HintApplies(ik, key)
                 /\ CharterInDirName(ik, key)
                 /\ ~SkipsEntry(walk[ik[1]], song_dir, song_name)

\* C17 as claimed: only the batch file itself is left out; a confirmed
\* folder candidate lying in the directory that holds the batch file still
\* makes the call return True.
C17_SelfExclusionOnlyTheFile ==
    Returned =>
        LET key == Key
        IN  (key # NoMatch
              /\ \E ik \in Subdirs :
                    /\ RootAt(ik) = song_dir
                    /\ song_name \in walk[ik[1]].files
                    /\ Confirmed(ik, key))
            => result = "True"

-----------------------------------------------------------------------------
(* Claims on the filename pattern (SpecParser).                            *)

Parsed == match.state \in {"match", "None"}

\* the key the filename was built from
BuiltKey ==
    [state |-> "match", artist |-> parts.artist, name |-> parts.title,
     charter |-> parts.charter]

\* no separator of the format occurs early: " - " not inside or at the end
\* of the artist, " (" not inside the title, and in the charter no ")" that
\* is followed by " (" or by ".sng"
SeparatorsUnambiguous ==
    /\ ~Contains(SepDash, parts.artist)
    /\ ~EndsWith(parts.artist, <<" ", "-">>)
    /\ ~Contains(SepParen, parts.title)
    /\ ~Contains(<<")", " ", "(">>, parts.charter)
    /\ ~Contains(CloseParen \o DotSng, parts.charter)

\* C10 as claimed: a name of the documented format, with or without the
\* counter, parses to exactly the components it was built from, also when
\* a component holds " - " or parentheses.
C10_RoundTripAnyComponents ==
    (Parsed /\ parts.shape = "ok") => match = BuiltKey

\* C10 amended: the components come back unchanged, counter or not, when
\* the separators are unambiguous.
C10_RoundTripUnambiguous ==
    (Parsed /\ parts.shape = "ok" /\ SeparatorsUnambiguous) => match = BuiltKey

\* C10 witness: a name with a counter and parentheses inside artist and
\* charter parsed back to its components
C10_Witness ==
    /\ Parsed
    /\ parts.shape = "ok"
    /\ SeparatorsUnambiguous
    /\ parts.counter # <<>>
    /\ Contains(CloseParen, parts.artist)
    /\ Contains(CloseParen, parts.charter)
    /\ match = BuiltKey

-----------------------------------------------------------------------------
(* Claims on remove_duplicates (Spec).                                     *)

IsSng(f) ==
    /\ Len(f) >= 4
    /\ f[Len(f)] = "g"
    /\ f[Len(f) - 1] = "n"
    /\ f[Len(f) - 2] = "s"
    /\ f[Len(f) - 3] = "."

\* a trailing " (N)" counter before ".sng": where it starts, or 0
CounterStart(f) ==
    IF ~IsSng(f) \/ Len(f) < 8 \/ f[Len(f) - 4] # ")" THEN 0
    ELSE LET starts == {i \in 1..(Len(f) - 7) :
                          /\ f[i] = " "
                          /\ f[i + 1] = "("
                          /\ \A k \in (i + 2)..(Len(f) - 5) : f[k] \in Digits}
         IN  IF starts = {} THEN 0 ELSE CHOOSE i \in starts : TRUE

HasSuffix(f) == CounterStart(f) # 0

\* the filename with a trailing " (N)" counter removed
NormalizedName(f) ==
    LET c == CounterStart(f)
    IN  IF c # 0 THEN Slice(f, 1, c - 1) \o DotSng ELSE f

ListedSng == {f \in DOMAIN listing : IsSng(f)}
Group(f) == {g \in ListedSng : NormalizedName(g) = NormalizedName(f)}
MaxSizeOf(G) == CHOOSE m \in {listing[g] : g \in G} : \A g \in G : listing[g] <= m
NoLibraryDuplicates ==
    \A f \in ListedSng : ~IsLibraryDuplicate(f, library, listing)

\* C1: after a run that is not a dry run, on a directory none of whose .sng
\* files is a library duplicate, exactly one file of every group of equal
\* normalized name is left, it has the largest size of the group, and it is
\* the file without counter when that one has the largest size.
C1_OneLargestSurvivor ==
    (pc = "done" /\ ~dry_run /\ NoLibraryDuplicates) =>
        \A f \in ListedSng :
            LET left == Group(f) \cap DOMAIN disk
            IN  /\ Cardinality(left) = 1
                /\ \A r \in left :
                     /\ listing[r] = MaxSizeOf(Group(f))
                     /\ (\E g \in Group(f) :
                            listing[g] = MaxSizeOf(Group(f)) /\ ~HasSuffix(g))
                          => ~HasSuffix(r)

\* C1 witness: a finished run on a group of three, two of them of the
\* largest size and one of these without counter, beside a second group
C1_Witness ==
    /\ pc = "done"
    /\ ~dry_run
    /\ run = "first"
    /\ NoLibraryDuplicates
    /\ {B1, B1c, B1d, U1, U1c} \subseteq DOMAIN listing
    /\ listing[B1] = listing[B1c]
    /\ listing[B1d] < listing[B1]
    /\ B1 \in DOMAIN disk

\* the entry the loop has just iterated, if any
Iterated == todo \ todo'

\* C2: in a run that is not a dry run, the iteration on a file that
\* find_duplicates_of_sng_in_library reports deletes that file and nothing
\* else and leaves files_dict alone, and files_dict never holds such a file.
C2_LibraryDuplicatesLeaveFirst ==
    [][~dry_run' =>
         /\ \A f \in Iterated :
               (IsSng(f) /\ IsLibraryDuplicate(f, library, disk)) =>
                   /\ DOMAIN disk' = (DOMAIN disk) \ {f}
                   /\ files_dict' = files_dict
         /\ \A b \in DOMAIN files_dict' :
               ~IsLibraryDuplicate(files_dict'[b].path, library, listing')]_vars

\* C2 witness: a library duplicate was iterated and is gone while another
\* file of its group is the current best
C2_Witness ==
    /\ pc = "loop"
    /\ ~dry_run
    /\ \E f \in ListedSng \ todo :
         /\ IsLibraryDuplicate(f, library, listing)
         /\ f \notin DOMAIN disk
         /\ NormalizedName(f) \in DOMAIN files_dict

\* C9: a second run on a directory that a first run (not a dry run) has
\* resolved removes nothing.
C9_SecondRunRemovesNothing ==
    (run = "second" /\ ~first_dry) => DOMAIN disk = DOMAIN listing

\* C9 witness: the second run has returned on a directory that still holds
\* one file of each of two groups, after a first run that met a library
\* duplicate
C9_Witness ==
    /\ run = "second"
    /\ pc = "done"
    /\ ~first_dry
    /\ ~dry_run
    /\ library.walk # <<>>
    /\ \E f, g \in ListedSng : NormalizedName(f) # NormalizedName(g)

\* the filename pattern of line 28 yields no key for f
Unparseable(f) == ReMatch(f) = NoMatch

\* C11 as claimed: a .sng file of the batch directory whose name the pattern
\* does not match is never deleted, also when another batch file has the
\* same normalized name.
C11_UnparseableNeverDeleted ==
    \A f \in ListedSng : Unparseable(f) => f \in DOMAIN disk

\* C12 as claimed: a removal that fails stops the work on that file only;
\* when the call has ended no entry other than the one whose removal failed
\* is left without its library check and its intra-batch resolution.
C12_FailureDoesNotAbort ==
    pc = "raised" => Cardinality(todo \cap ListedSng) <= 1

\* C19 as claimed: a call with dry_run=True deletes nothing; the directory
\* holds what os.listdir returned at every point of the call and after it.
C19_DryRunDeletesNothing ==
    (dry_run /\ pc # Idle) => DOMAIN disk = DOMAIN listing

\* C13: no step of the engine changes the library, creates a file in the
\* batch directory, changes the size of one, or deletes a file of the batch
\* directory that is not a .sng file.
C13_OnlyBatchSngDeleted ==
    [][/\ library' = library
       /\ DOMAIN disk' \subseteq DOMAIN disk
       /\ \A f \in DOMAIN disk' : disk'[f] = disk[f]
       /\ \A f \in DOMAIN disk : ~IsSng(f) => f \in DOMAIN disk']_vars

\* C13 witness: a finished run has deleted .sng files, a library duplicate
\* among them, and has left the other file although the library holds a
\* file of its name
C13_Witness ==
    /\ pc = "done"
    /\ ~dry_run
    /\ \E f \in ListedSng :
         f \notin DOMAIN disk /\ IsLibraryDuplicate(f, library, listing)
    /\ \E f \in ListedSng :
         f \notin DOMAIN disk /\ ~IsLibraryDuplicate(f, library, listing)
    /\ \E f \in DOMAIN disk :
         ~IsSng(f) /\ \E i \in DOMAIN library.walk : f \in library.walk[i].files

\* the .sng entries of the listing already iterated
Processed == ListedSng \ todo

\* for each normalized name files_dict holds a file that is on disk, and of
\* the processed entries of that name that are not library duplicates it is
\* the only one on disk
OneBestPerGroup ==
    /\ \A b \in DOMAIN files_dict :
         /\ files_dict[b].path \in DOMAIN disk
         /\ NormalizedName(files_dict[b].path) = b
         /\ files_dict[b].size = disk[files_dict[b].path]
    /\ \A g \in Processed \cap DOMAIN disk :
         \/ \E b \in DOMAIN files_dict : files_dict[b].path = g
         \/ dry_run /\ IsLibraryDuplicate(g, library, listing)
    /\ \A g \in Processed \ DOMAIN disk :
         \/ NormalizedName(g) \in DOMAIN files_dict
         \/ ~dry_run /\ IsLibraryDuplicate(g, library, listing)

\* the iteration on f, an entry beyond the first of its group, removes
\* exactly one file that is on disk: the previous best when f is larger or
\* is of equal size without counter, f itself otherwise
OneRemovalPerEntry(f) ==
    LET old == files_dict[NormalizedName(f)]
        newWins == \/ disk[f] > old.size
                   \/ disk[f] = old.size /\ ~HasSuffix(f)
        gone == IF newWins THEN old.path ELSE f
    IN  /\ gone \in DOMAIN disk
        /\ DOMAIN disk' = (DOMAIN disk) \ {gone}
        /\ files_dict'[NormalizedName(f)].path = IF newWins THEN f ELSE old.path

\* C18: at every point of remove_duplicates files_dict holds one existing
\* file per normalized name, the only processed one of its group left on
\* disk, library duplicates apart; the first entry of a group removes
\* nothing and every later one removes exactly one existing file.
C18_StreamingReduction ==
    [][/\ OneBestPerGroup'
       /\ \A f \in Iterated :
             (IsSng(f) /\ ~IsLibraryDuplicate(f, library, disk)) =>
                 IF NormalizedName(f) \in DOMAIN files_dict
                 THEN OneRemovalPerEntry(f)
                 ELSE DOMAIN disk' = DOMAIN disk]_vars

\* C18 witness: a group of three has been processed, the entry with the
\* counter (2) is the best and the only one of them left
C18_Witness ==
    /\ pc = "loop"
    /\ {B1, B1c, B1d} \subseteq Processed
    /\ U1 \in todo
    /\ ~IsLibraryDuplicate(B1, library, listing)
    /\ ~IsLibraryDuplicate(B1c, library, listing)
    /\ B1 \in DOMAIN files_dict
    /\ files_dict[B1].path = B1d
    /\ {B1, B1c, B1d} \cap DOMAIN disk = {B1d}

-----------------------------------------------------------------------------
(* A claim on the listing order (SpecOrder).                               *)

Replayed == pc = "done" /\ run = "replay"

\* the normalized names and sizes of the .sng files among S
NamesAndSizes(S) == {<<NormalizedName(f), listing[f]>> : f \in S \cap ListedSng}

\* f ties with another counter-suffixed file of its group
TiesWithSuffixed(f) ==
    /\ HasSuffix(f)
    /\ \E g \in Group(f) \ {f} : HasSuffix(g) /\ listing[g] = listing[f]

\* C20 as claimed: the files left by remove_duplicates are the same for
\* every listing order of the same files, groups with several suffixed
\* files of the maximal size included.
C20_SameSurvivorsAnyOrder ==
    Replayed => DOMAIN disk = earlier

\* C20 amended: for every listing order the files left have the same
\* normalized names and sizes, and they are the same files except where
\* counter-suffixed files of one group tie in size.
C20_SameSurvivorsUpToSuffixTies ==
    Replayed =>
        /\ NamesAndSizes(DOMAIN disk) = NamesAndSizes(earlier)
        /\ \A f \in DOMAIN listing :
              (f \in DOMAIN disk) # (f \in earlier) => TiesWithSuffixed(f)

\* C20 witness: two orders left different files of a group tied between
\* two suffixed files, and the same file of another group
C20_Witness ==
    /\ Replayed
    /\ ~dry_run
    /\ DOMAIN disk # earlier
    /\ B1c \in earlier
    /\ B1d \in DOMAIN disk
    /\ U1c \in earlier \cap DOMAIN disk
    /\ U1 \in DOMAIN listing

-----------------------------------------------------------------------------
(* A claim on find_duplicates_of_sng_in_library (SpecChecker) that speaks  *)
(* of the normalized name.                                                 *)

\* C16 as claimed: the result for a batch file with a counter is the result
\* for the same name without the counter, whatever the library holds; a
\* library file of the name without counter is an exact match for it.
C16_CounterDoesNotMatter ==
    Returned =>
        result = PyBool(find_duplicates_of_sng_in_library(
                            song_dir, NormalizedName(song_name), walk,
                            charter_verification))

=============================================================================
